---- MODULE Spec2Model ----
(***************************************************************************)
(* Model of src/src/monitor_plotly.py: the price monitor's batch run       *)
(* (fetch -> append -> load -> enrich -> render -> alert -> notify), its   *)
(* functions taken one call at a time, and two invocations racing on the   *)
(* history log.                                                            *)
(*                                                                         *)
(* Text (CSV fields, column names) is a sequence of one-character strings, *)
(* so that formatting and parsing are computed and not assumed.  Prices    *)
(* are integer-valued floats; quotients and means are exact rationals      *)
(* [num, den] together with the IEEE specials NaN and +/-inf (rounding of  *)
(* doubles is outside the model).                                          *)
(***************************************************************************)
EXTENDS Integers, Sequences, FiniteSets, TLC

VARIABLES
    pc,          \* position of the running invocation of main(), "idle" between runs
    cfg,         \* the configuration loaded by the run (alerts, telegram sections)
    now,         \* the run's timestamp (dt.datetime.utcnow())
    prices,      \* the run's price mapping: ordered <<name, value>> pairs
    df,          \* the run's loaded history table
    alerts,      \* the run's alert list
    sent,        \* what notify_telegram did in the run
    out,         \* the run's standard output, one tag or alert per line
    exit,        \* how the last run ended
    fileExists,  \* whether the history CSV exists
    logLines,    \* the history CSV: a sequence of rows, each a sequence of fields
    dashboard,   \* the dashboard artifact: the table it was rendered from
    appended,    \* history: the <<timestamp, prices>> of every completed append
    initAbsent,  \* history: whether the log was absent before the first run
    atStart,     \* history: log and dashboard as they were when the run started
    runs,        \* number of runs started
    call,        \* a single function call under test: its name and arguments
    ret,         \* the result of that call
    proc,        \* two invocations of append_history: position and locals of each
    mode         \* how those invocations are scheduled

vars == <<pc, cfg, now, prices, df, alerts, sent, out, exit, fileExists, logLines,
          dashboard, appended, initAbsent, atStart, runs, call, ret, proc, mode>>

runVars == <<pc, cfg, now, prices, df, alerts, sent, out, exit, fileExists, logLines,
             dashboard, appended, initAbsent, atStart, runs>>

----------------------------------------------------------------------------
(* Bounds of the model *)

\* runs of main() against one log
MaxRuns == 2
\* rows of a table handed to enrich_with_changes / build_dashboard
MaxRows == 3
\* asset configs in a list handed to check_alerts
MaxAssets == 2
\* largest moving-average window a chart configuration lists
MaxWindow == 3

----------------------------------------------------------------------------
(* Text *)

Digit(d) == CASE d = 0 -> "0" [] d = 1 -> "1" [] d = 2 -> "2" [] d = 3 -> "3"
              [] d = 4 -> "4" [] d = 5 -> "5" [] d = 6 -> "6" [] d = 7 -> "7"
              [] d = 8 -> "8" [] d = 9 -> "9"

DigitVal(c) == CASE c = "0" -> 0 [] c = "1" -> 1 [] c = "2" -> 2 [] c = "3" -> 3
                 [] c = "4" -> 4 [] c = "5" -> 5 [] c = "6" -> 6 [] c = "7" -> 7
                 [] c = "8" -> 8 [] c = "9" -> 9

\* decimal digits of a natural number, no padding
RECURSIVE Digits(_)
Digits(n) == IF n < 10 THEN <<Digit(n)>> ELSE Digits(n \div 10) \o <<Digit(n % 10)>>

\* decimal digits zero-padded on the left to width w
RECURSIVE Padded(_, _)
Padded(n, w) == IF w = 0 THEN <<>> ELSE Padded(n \div 10, w - 1) \o <<Digit(n % 10)>>

\* the natural number a run of digits denotes
RECURSIVE Number(_)
Number(s) == IF s = <<>> THEN 0
             ELSE 10 * Number(SubSeq(s, 1, Len(s) - 1)) + DigitVal(s[Len(s)])

\* position of the first c in s, 0 when there is none
RECURSIVE IndexFrom(_, _, _)
IndexFrom(s, c, i) == IF i > Len(s) THEN 0
                      ELSE IF s[i] = c THEN i ELSE IndexFrom(s, c, i + 1)

Find(s, c) == IndexFrom(s, c, 1)

EndsWith(s, suffix) ==
    /\ Len(s) >= Len(suffix)
    /\ SubSeq(s, Len(s) - Len(suffix) + 1, Len(s)) = suffix

TimestampCol == <<"t", "i", "m", "e", "s", "t", "a", "m", "p">>
PctSuffix == <<"_", "p", "c", "t">>
BTC == <<"B", "T", "C">>
ETH == <<"E", "T", "H">>

----------------------------------------------------------------------------
(* Numbers: a float is finite (num/den in lowest terms, den > 0), NaN or +/-inf *)

RECURSIVE GCD(_, _)
GCD(a, b) == IF b = 0 THEN a ELSE GCD(b, a % b)

Abs(x) == IF x < 0 THEN -x ELSE x

Rat(n, d) ==
    LET g == GCD(Abs(n), Abs(d))
        s == IF d < 0 THEN -1 ELSE 1
    IN  [k |-> "num", n |-> (s * n) \div g, d |-> (s * d) \div g]

F(n) == [k |-> "num", n |-> n, d |-> 1]
NaN == [k |-> "nan", n |-> 0, d |-> 0]
Inf(sign) == [k |-> "inf", n |-> sign, d |-> 0]
Zero == F(0)

Sign(n) == IF n > 0 THEN 1 ELSE IF n < 0 THEN -1 ELSE 0

\* a + b in IEEE arithmetic
FAdd(a, b) ==
    IF a.k = "nan" \/ b.k = "nan" THEN NaN
    ELSE IF a.k = "inf" /\ b.k = "inf" THEN (IF a.n = b.n THEN a ELSE NaN)
    ELSE IF a.k = "inf" THEN a
    ELSE IF b.k = "inf" THEN b
    ELSE Rat(a.n * b.d + b.n * a.d, a.d * b.d)

FNeg(a) == IF a.k = "nan" THEN NaN ELSE [a EXCEPT !.n = -a.n]

FSub(a, b) == FAdd(a, FNeg(b))

\* a * b in IEEE arithmetic
FMul(a, b) ==
    IF a.k = "nan" \/ b.k = "nan" THEN NaN
    ELSE IF a.k = "inf" \/ b.k = "inf"
         THEN (IF Sign(a.n) * Sign(b.n) = 0 THEN NaN ELSE Inf(Sign(a.n) * Sign(b.n)))
    ELSE Rat(a.n * b.n, a.d * b.d)

\* a / b in IEEE arithmetic (numpy float64 division: x/0 is +/-inf, 0/0 is NaN)
FDiv(a, b) ==
    IF a.k = "nan" \/ b.k = "nan" THEN NaN
    ELSE IF a.k = "inf" THEN (IF b.k = "inf" THEN NaN
                              ELSE Inf(a.n * (IF b.n < 0 THEN -1 ELSE 1)))
    ELSE IF b.k = "inf" THEN Zero
    ELSE IF b.n = 0 THEN (IF a.n = 0 THEN NaN ELSE Inf(Sign(a.n)))
    ELSE Rat(a.n * b.d, a.d * b.n)

----------------------------------------------------------------------------
(* Ordered mappings (Python dicts): a sequence of <<key, value>>, keys distinct *)

Keys(m) == [i \in 1..Len(m) |-> m[i][1]]
HasKey(m, key) == \E i \in 1..Len(m) : m[i][1] = key
Lookup(m, key) == m[CHOOSE i \in 1..Len(m) : m[i][1] = key][2]

\* m[key] = value: a present key keeps its position, a new key goes last
Store(m, key, value) ==
    IF HasKey(m, key)
    THEN [i \in 1..Len(m) |-> IF m[i][1] = key THEN <<key, value>> ELSE m[i]]
    ELSE Append(m, <<key, value>>)

----------------------------------------------------------------------------
(* check_alerts *)

\* the same loop with a strict comparison against the upper threshold
RECURSIVE check_alerts_strict(_, _)
check_alerts_strict(ps, assets) ==
    IF assets = <<>> THEN <<>>
    ELSE LET a == assets[Len(assets)]
             before == check_alerts_strict(ps, SubSeq(assets, 1, Len(assets) - 1))
         IN  IF ~HasKey(ps, a.name) THEN before
             ELSE LET p == Lookup(ps, a.name)
                      up == IF a.hasUpper /\ p > a.upper
                            THEN <<[name |-> a.name, kind |-> "upper",
                                    threshold |-> a.upper, price |-> p]>>
                            ELSE <<>>
                      lo == IF a.hasLower /\ p <= a.lower
                            THEN <<[name |-> a.name, kind |-> "lower",
                                    threshold |-> a.lower, price |-> p]>>
                            ELSE <<>>
                  IN  before \o up \o lo

\* An alert stands for the f-string's fields: the asset name, the comparison
\* direction, the threshold and the observed price.
RECURSIVE check_alerts(_, _)
check_alerts(ps, assets) ==
    IF assets = <<>> THEN <<>>
    ELSE LET a == assets[Len(assets)]
             before == check_alerts(ps, SubSeq(assets, 1, Len(assets) - 1))
         IN  IF ~HasKey(ps, a.name) THEN before           \* p is None: continue
             ELSE LET p == Lookup(ps, a.name)
                      up == IF a.hasUpper /\ p >= a.upper
                            THEN <<[name |-> a.name, kind |-> "upper",
                                    threshold |-> a.upper, price |-> p]>>
                            ELSE <<>>
                      lo == IF a.hasLower /\ p <= a.lower
                            THEN <<[name |-> a.name, kind |-> "lower",
                                    threshold |-> a.lower, price |-> p]>>
                            ELSE <<>>
                  IN  before \o up \o lo

----------------------------------------------------------------------------
(* enrich_with_changes *)

\* A table is [cols, rows]: cols are the columns other than "timestamp" in
\* order, a row is [ts, vals] with one cell of vals per column.

\* Series.pct_change(): data / data.shift(1) - 1, NaN in the first row
pct_change(rows, j, i) ==
    IF i = 1 THEN NaN
    ELSE FSub(FDiv(rows[i].vals[j], rows[i - 1].vals[j]), F(1))

\* DataFrame.fillna(0.0): NaN becomes 0, every other value (inf too) stays
fillna(x) == IF x.k = "nan" THEN Zero ELSE x

\* the same function with infinities filled as well
enrich_fill_inf(t) ==
    LET n == Len(t.cols)
    IN  [cols |-> t.cols \o [j \in 1..n |-> t.cols[j] \o PctSuffix],
         rows |-> [i \in 1..Len(t.rows) |->
                     [ts |-> t.rows[i].ts,
                      vals |-> [j \in 1..(2 * n) |->
                          IF j <= n THEN fillna(t.rows[i].vals[j])
                          ELSE LET x == FMul(pct_change(t.rows, j - n, i), F(100))
                               IN  IF x.k = "num" THEN x ELSE Zero]]]]

enrich_with_changes(t) ==
    LET n == Len(t.cols)
    IN  [cols |-> t.cols \o [j \in 1..n |-> t.cols[j] \o PctSuffix],
         rows |-> [i \in 1..Len(t.rows) |->
                     [ts |-> t.rows[i].ts,
                      vals |-> [j \in 1..(2 * n) |->
                          IF j <= n THEN fillna(t.rows[i].vals[j])
                          ELSE fillna(FMul(pct_change(t.rows, j - n, i), F(100)))]]]]

----------------------------------------------------------------------------
(* build_dashboard *)

IsPriceCol(col) == col # TimestampCol /\ ~EndsWith(col, PctSuffix)

Column(t, j) == [i \in 1..Len(t.rows) |-> t.rows[i].vals[j]]

\* the window sum pandas keeps while it slides: add the entering observation,
\* remove the one that leaves
RECURSIVE roll_sum(_, _, _)
roll_sum(ys, w, k) ==
    IF k = 0 THEN Zero
    ELSE LET added == FAdd(roll_sum(ys, w, k - 1), ys[k])
         IN  IF k > w THEN FSub(added, ys[k - w]) ELSE added

\* a window that also counts a partial window as full (min_periods = 1)
rolling_mean_partial(ys, w) ==
    [k \in 1..Len(ys) |->
        LET nobs == IF k < w THEN k ELSE w
        IN  FDiv(roll_sum(ys, w, k), F(nobs))]

\* Series.rolling(w).mean(): min_periods is w, so a point with fewer than w
\* observations behind it is NaN
rolling_mean(ys, w) ==
    [k \in 1..Len(ys) |->
        LET nobs == IF k < w THEN k ELSE w
        IN  IF nobs < w THEN NaN ELSE FDiv(roll_sum(ys, w, k), F(nobs))]

RECURSIVE SumCells(_)
SumCells(xs) == IF xs = <<>> THEN Zero
                ELSE FAdd(SumCells(SubSeq(xs, 1, Len(xs) - 1)), xs[Len(xs)])

RECURSIVE Flatten(_)
Flatten(ss) == IF ss = <<>> THEN <<>>
               ELSE Flatten(SubSeq(ss, 1, Len(ss) - 1)) \o ss[Len(ss)]

\* the indexes from j on at which flags holds TRUE, in order
RECURSIVE Where(_, _)
Where(flags, j) ==
    IF j > Len(flags) THEN <<>>
    ELSE (IF flags[j] THEN <<j>> ELSE <<>>) \o Where(flags, j + 1)

IsPctCol(col) == EndsWith(col, PctSuffix)

\* the indexes of the asset price columns, and of the _pct columns
PriceCols(cols) == Where([j \in 1..Len(cols) |-> IsPriceCol(cols[j])], 1)
PctCols(cols) == Where([j \in 1..Len(cols) |-> IsPctCol(cols[j])], 1)

\* The figure is its traces (name, kind, window, y values, mode); the table is
\* its rows of latest values.  raised: df.iloc[-1] on a table with no row.
build_dashboard(t, ma_windows) ==
    LET priceCols == PriceCols(t.cols)
        pctCols == PctCols(t.cols)
        n == Len(t.rows)
        priceMode == IF n <= 3 THEN "lines+markers" ELSE "lines"
        tracesOf(j) ==
            <<[name |-> t.cols[j], kind |-> "price", w |-> 0, y |-> Column(t, j),
               mode |-> priceMode]>>
            \o [x \in 1..Len(ma_windows) |->
                  [name |-> t.cols[j], kind |-> "ma", w |-> ma_windows[x],
                   y |-> rolling_mean(Column(t, j), ma_windows[x]), mode |-> "lines"]]
        vol == [i \in 1..n |->
                  fillna(FDiv(SumCells([x \in 1..Len(pctCols) |-> t.rows[i].vals[pctCols[x]]]),
                              F(Len(pctCols))))]
        bar == IF pctCols # <<>>
               THEN <<[name |-> <<>>, kind |-> "bar", w |-> 0, y |-> vol, mode |-> "bar"]>>
               ELSE <<>>
        pctOf(j) == IF \E x \in 1..Len(t.cols) : t.cols[x] = t.cols[j] \o PctSuffix
                    THEN t.rows[n].vals[CHOOSE x \in 1..Len(t.cols) :
                                            t.cols[x] = t.cols[j] \o PctSuffix]
                    ELSE Zero
        latest == [x \in 1..Len(priceCols) |->
                     [col |-> t.cols[priceCols[x]],
                      price |-> t.rows[n].vals[priceCols[x]],
                      pct |-> pctOf(priceCols[x])]]
        traces == Flatten([x \in 1..Len(priceCols) |-> tracesOf(priceCols[x])]) \o bar
    IN  IF n = 0
        THEN [raised |-> TRUE, traces |-> traces, latest |-> <<>>]
        ELSE [raised |-> FALSE, traces |-> traces, latest |-> latest]

----------------------------------------------------------------------------
(* notify_telegram *)

\* A configuration value: a missing key, a YAML null, or a string.
Missing == [k |-> "missing", s |-> ""]
Null == [k |-> "null", s |-> ""]
Str(s) == [k |-> "str", s |-> s]

\* x.get(key) or "": a missing key, a null and "" all give ""
OrEmpty(v) == IF v.k = "str" THEN v.s ELSE ""

\* The telegram section is missing, null or a mapping [bot_token, chat_id].
\* net is what the network does with a POST: "ok", or "error" (any exception
\* raised by requests.post).  The result: raised (an exception leaves the
\* function), value (what it returns), posts (POST requests issued).

\* the same function without the try/except around the POST
notify_telegram_uncaught(tg, net) ==
    IF tg.k = "null"
    THEN [raised |-> TRUE, value |-> FALSE, posts |-> 0]
    ELSE LET token == IF tg.k = "missing" THEN "" ELSE OrEmpty(tg.bot_token)
             chat_id == IF tg.k = "missing" THEN "" ELSE OrEmpty(tg.chat_id)
         IN  IF token = "" \/ chat_id = ""
             THEN [raised |-> FALSE, value |-> FALSE, posts |-> 0]
             ELSE IF net = "ok"
                  THEN [raised |-> FALSE, value |-> TRUE, posts |-> 1]
                  ELSE [raised |-> TRUE, value |-> FALSE, posts |-> 1]

\* the same function posting as soon as one credential is set
notify_telegram_either(tg, net) ==
    IF tg.k = "null"
    THEN [raised |-> TRUE, value |-> FALSE, posts |-> 0]
    ELSE LET token == IF tg.k = "missing" THEN "" ELSE OrEmpty(tg.bot_token)
             chat_id == IF tg.k = "missing" THEN "" ELSE OrEmpty(tg.chat_id)
         IN  IF token = "" /\ chat_id = ""
             THEN [raised |-> FALSE, value |-> FALSE, posts |-> 0]
             ELSE IF net = "ok"
                  THEN [raised |-> FALSE, value |-> TRUE, posts |-> 1]
                  ELSE [raised |-> FALSE, value |-> FALSE, posts |-> 1]

notify_telegram(tg, net) ==
    IF tg.k = "null"
    \* cfg.get("telegram", {}) is None: None.get raises AttributeError
    THEN [raised |-> TRUE, value |-> FALSE, posts |-> 0]
    ELSE LET token == IF tg.k = "missing" THEN "" ELSE OrEmpty(tg.bot_token)
             chat_id == IF tg.k = "missing" THEN "" ELSE OrEmpty(tg.chat_id)
         IN  IF token = "" \/ chat_id = ""
             THEN [raised |-> FALSE, value |-> FALSE, posts |-> 0]
             ELSE IF net = "ok"
                  THEN [raised |-> FALSE, value |-> TRUE, posts |-> 1]
                  ELSE [raised |-> FALSE, value |-> FALSE, posts |-> 1]

TgMissing == [k |-> "missing", bot_token |-> Missing, chat_id |-> Missing]
TgNull == [k |-> "null", bot_token |-> Missing, chat_id |-> Missing]
TgMap(token, chat) == [k |-> "map", bot_token |-> token, chat_id |-> chat]

----------------------------------------------------------------------------
(* The history CSV: formatting and parsing of its fields *)

\* A timestamp is [s, us]: the second and the microsecond of a datetime whose
\* date, hour and minute are the same for every timestamp of the model.

\* datetime.isoformat(): the microseconds are printed only when they are not 0
isoformat(t) ==
    <<"T">> \o Padded(t.s, 2)
    \o (IF t.us = 0 THEN <<>> ELSE <<".">> \o Padded(t.us, 6))

\* parse_dates: the timestamp an ISO-8601 field denotes
parse_date(s) ==
    [s |-> Number(SubSeq(s, 2, 3)),
     us |-> IF Len(s) > 3 THEN Number(SubSeq(s, 5, Len(s))) ELSE 0]

\* str(float) of an integer-valued float, as csv.writer writes it: "12.0"
float_repr(v) == Digits(v) \o <<".", "0">>

RECURSIVE Pow10(_)
Pow10(n) == IF n = 0 THEN 1 ELSE 10 * Pow10(n - 1)

\* the float a decimal field denotes
parse_float(s) ==
    LET dot == Find(s, ".")
        whole == IF dot = 0 THEN s ELSE SubSeq(s, 1, dot - 1)
        frac == IF dot = 0 THEN <<>> ELSE SubSeq(s, dot + 1, Len(s))
    IN  Rat(Number(whole \o frac), Pow10(Len(frac)))

TimeKey(t) == t.s * 1000000 + t.us

----------------------------------------------------------------------------
(* append_history *)

header_row(ps) == <<TimestampCol>> \o Keys(ps)

\* the same row with the values in reverse order
data_row_reversed(timestamp, ps) ==
    <<isoformat(timestamp)>> \o [i \in 1..Len(ps) |-> float_repr(ps[Len(ps) + 1 - i][2])]

data_row(timestamp, ps) ==
    <<isoformat(timestamp)>> \o [i \in 1..Len(ps) |-> float_repr(ps[i][2])]

\* the same writes with the header written on every call
rows_written_always_header(file_exists, timestamp, ps) ==
    <<header_row(ps), data_row(timestamp, ps)>>

\* the same writes with the existence test inverted
rows_written_inverted(file_exists, timestamp, ps) ==
    (IF file_exists THEN <<header_row(ps)>> ELSE <<>>)
    \o <<data_row(timestamp, ps)>>

\* What one call writes to the file it opened for appending: the header row
\* when the file did not exist at the existence check, then the data row.
rows_written(file_exists, timestamp, ps) ==
    (IF ~file_exists THEN <<header_row(ps)>> ELSE <<>>)
    \o <<data_row(timestamp, ps)>>

----------------------------------------------------------------------------
(* load_history *)

\* pd.read_csv(csv_path, parse_dates=["timestamp"]): the first line names the
\* columns.  It raises when no column is named "timestamp" and when a later
\* line holds more fields than the first; a line with fewer fields is padded
\* with NaN.
read_raises(lines) ==
    \/ lines = <<>>
    \/ Find(lines[1], TimestampCol) = 0
    \/ \E i \in 2..Len(lines) : Len(lines[i]) > Len(lines[1])

read_csv(lines) ==
    LET head == lines[1]
        tcol == Find(head, TimestampCol)
        others == Where([j \in 1..Len(head) |-> head[j] # TimestampCol], 1)
    IN  [cols |-> [j \in 1..Len(others) |-> head[others[j]]],
         rows |-> [i \in 1..(Len(lines) - 1) |->
                     LET line == lines[i + 1]
                     IN  [ts |-> parse_date(line[tcol]),
                          vals |-> [j \in 1..Len(others) |->
                                      IF others[j] <= Len(line)
                                      THEN parse_float(line[others[j]])
                                      ELSE NaN]]]]

RowOrders(n) ==
    {p \in [1..n -> 1..n] : \A i, j \in 1..n : i # j => p[i] # p[j]}

\* df.sort_values("timestamp"): the default sort is not stable, so rows with
\* equal timestamps come out in any order
sort_values(t) ==
    {[cols |-> t.cols, rows |-> [i \in 1..Len(t.rows) |-> t.rows[p[i]]]] :
        p \in {q \in RowOrders(Len(t.rows)) :
                 \A i \in 1..(Len(t.rows) - 1) :
                    TimeKey(t.rows[q[i]].ts) <= TimeKey(t.rows[q[i + 1]].ts)}}

\* the same load without the sort
load_history_unsorted(lines) == {read_csv(lines)}

\* the tables load_history may return for a file that read_csv accepts
load_history(lines) == sort_values(read_csv(lines))

----------------------------------------------------------------------------
(* fetch_prices *)

\* The response body is an ordered mapping from asset id to an entry
\* [has, price]: has says whether the entry holds the quote currency.
RECURSIVE fetch_prices(_, _)
fetch_prices(assets, data) ==
    IF assets = <<>> THEN <<>>
    ELSE LET a == assets[Len(assets)]
             before == fetch_prices(SubSeq(assets, 1, Len(assets) - 1), data)
         IN  IF HasKey(data, a.id) /\ Lookup(data, a.id).has
             THEN Store(before, a.name, Lookup(data, a.id).price)
             ELSE before

----------------------------------------------------------------------------
(* The inputs of a run *)

\* cfg["assets"]: BTC alerts at or above 12, ETH at or below 1
Assets ==
    <<[id |-> "bitcoin", name |-> BTC, hasUpper |-> TRUE, upper |-> 12,
       hasLower |-> FALSE, lower |-> 0],
      [id |-> "ethereum", name |-> ETH, hasUpper |-> FALSE, upper |-> 0,
       hasLower |-> TRUE, lower |-> 1]>>

\* what the price API may answer for each asset: nothing, an entry without
\* the quote currency, or a price
Entries(id) ==
    IF id = "bitcoin"
    THEN {<<>>, <<<<id, [has |-> FALSE, price |-> 0]>>>>,
          <<<<id, [has |-> TRUE, price |-> 0]>>>>,
          <<<<id, [has |-> TRUE, price |-> 12]>>>>}
    ELSE {<<>>, <<<<id, [has |-> TRUE, price |-> 1]>>>>}

Responses == {b \o e : b \in Entries("bitcoin"), e \in Entries("ethereum")}

Times == {[s |-> 0, us |-> 0], [s |-> 0, us |-> 5], [s |-> 1, us |-> 0]}

TelegramSections ==
    {TgMissing, TgNull, TgMap(Missing, Missing),
     TgMap(Str(""), Str("chat")), TgMap(Str("token"), Null),
     TgMap(Str("token"), Missing), TgMap(Missing, Str("chat")),
     TgMap(Str("token"), Str("chat"))}

Configs == [alerts_enabled : BOOLEAN, telegram : TelegramSections]

\* bool(cfg.get("telegram")): a missing section, a null and an empty mapping
\* are all false
Truthy(tg) == tg.k = "map" /\ ~(tg.bot_token.k = "missing" /\ tg.chat_id.k = "missing")

NoCfg == [alerts_enabled |-> FALSE, telegram |-> TgMissing]
NoTime == [s |-> 0, us |-> 0]
NoTable == [cols |-> <<>>, rows |-> <<>>]
NoDashboard == [written |-> FALSE, table |-> NoTable]
NotCalled == [called |-> FALSE, raised |-> FALSE, value |-> FALSE, posts |-> 0]
NoCall == [f |-> "none"]
NoProc == [p \in {1, 2} |-> [pc |-> "idle", file_exists |-> FALSE, timestamp |-> NoTime,
                             prices |-> <<>>, calls |-> 0]]

Line(kind, as) == [k |-> kind, a |-> as]

----------------------------------------------------------------------------
(* main: one run at a time *)

RunInit ==
    /\ pc = "idle" /\ cfg = NoCfg /\ now = NoTime /\ prices = <<>> /\ df = NoTable
    /\ alerts = <<>> /\ sent = NotCalled /\ out = <<>> /\ exit = "none"
    /\ logLines = <<>> /\ dashboard = NoDashboard /\ appended = <<>>
    /\ atStart = [exists |-> fileExists, lines |-> <<>>, dashboard |-> NoDashboard,
                  appended |-> 0]
    /\ runs = 0

\* The history CSV is a file of the environment: before the first run it is
\* absent, or present and empty (open(csv_path, "a") creates it before any
\* row is written, and an earlier invocation may have stopped there).
Init ==
    /\ fileExists \in BOOLEAN
    /\ initAbsent = ~fileExists
    /\ RunInit
    /\ call = NoCall /\ ret = NoCall /\ proc = NoProc /\ mode = "sequential"

\* load_config and utcnow: the run starts
Start ==
    /\ pc = "idle" /\ runs < MaxRuns
    /\ \E c \in Configs, t \in Times :
          /\ cfg' = c
          /\ now' = t
    /\ pc' = "fetch"
    /\ runs' = runs + 1
    /\ atStart' = [exists |-> fileExists, lines |-> logLines, dashboard |-> dashboard,
                   appended |-> Len(appended)]
    /\ UNCHANGED <<call, ret, proc, mode>>
    /\ UNCHANGED <<prices, df, alerts, sent, out, exit, fileExists, logLines,
                   dashboard, appended, initAbsent>>

\* the fetch with the history row appended before the request is made
FetchFailAfterAppend ==
    /\ pc = "fetch"
    /\ pc' = "exited" /\ exit' = "fetch_error"
    /\ fileExists' = TRUE
    /\ logLines' = logLines \o rows_written(fileExists, now, <<>>)
    /\ UNCHANGED <<call, ret, proc, mode>>
    /\ UNCHANGED <<cfg, now, prices, df, alerts, sent, out, dashboard, appended,
                   initAbsent, atStart, runs>>

\* fetch_prices raises (raise_for_status, a timeout, a connection error, a
\* body that is not JSON): nothing catches it and the run ends
FetchFail ==
    /\ pc = "fetch"
    /\ pc' = "exited" /\ exit' = "fetch_error"
    /\ UNCHANGED <<call, ret, proc, mode>>
    /\ UNCHANGED <<cfg, now, prices, df, alerts, sent, out, fileExists, logLines,
                   dashboard, appended, initAbsent, atStart, runs>>

FetchOk ==
    /\ pc = "fetch"
    /\ \E data \in Responses : prices' = fetch_prices(Assets, data)
    /\ pc' = "append"
    /\ UNCHANGED <<call, ret, proc, mode>>
    /\ UNCHANGED <<cfg, now, df, alerts, sent, out, exit, fileExists, logLines,
                   dashboard, appended, initAbsent, atStart, runs>>

AppendHistory ==
    /\ pc = "append"
    /\ fileExists' = TRUE
    /\ logLines' = logLines \o rows_written(fileExists, now, prices)
    /\ appended' = Append(appended, [timestamp |-> now, prices |-> prices])
    /\ pc' = "load"
    /\ UNCHANGED <<call, ret, proc, mode>>
    /\ UNCHANGED <<cfg, now, prices, df, alerts, sent, out, exit, dashboard,
                   initAbsent, atStart, runs>>

\* load_history, then the df is None or df.empty test of main
LoadHistory ==
    /\ pc = "load"
    /\ IF read_raises(logLines)
       THEN /\ pc' = "exited" /\ exit' = "load_error" /\ df' = df
       ELSE \E t \in load_history(logLines) :
               /\ df' = t
               /\ IF t.rows = <<>>
                  THEN pc' = "exited" /\ exit' = "no_history"
                  ELSE pc' = "render" /\ exit' = exit
    /\ UNCHANGED <<call, ret, proc, mode>>
    /\ UNCHANGED <<cfg, now, prices, alerts, sent, out, fileExists, logLines,
                   dashboard, appended, initAbsent, atStart, runs>>

\* enrich_with_changes, build_dashboard, write_dashboard_html.  The artifact
\* is a function of the loaded table and stands here as that table.
Render ==
    /\ pc = "render"
    /\ dashboard' = [written |-> TRUE, table |-> df]
    /\ pc' = "alerts"
    /\ UNCHANGED <<call, ret, proc, mode>>
    /\ UNCHANGED <<cfg, now, prices, df, alerts, sent, out, exit, fileExists,
                   logLines, appended, initAbsent, atStart, runs>>

\* check_alerts, and the joined message printed when alerts are enabled
CheckAlerts ==
    /\ pc = "alerts"
    /\ alerts' = check_alerts(prices, Assets)
    /\ IF cfg.alerts_enabled /\ alerts' # <<>>
       THEN /\ out' = <<Line("message", alerts')>>
            /\ pc' = IF Truthy(cfg.telegram) THEN "notify" ELSE "print"
       ELSE /\ out' = out
            /\ pc' = "print"
    /\ UNCHANGED <<call, ret, proc, mode>>
    /\ UNCHANGED <<cfg, now, prices, df, sent, exit, fileExists, logLines,
                   dashboard, appended, initAbsent, atStart, runs>>

\* notify_telegram(msg, cfg) against a network that delivers or fails
Notify ==
    /\ pc = "notify"
    /\ \E net \in {"ok", "error"} :
          LET r == notify_telegram(cfg.telegram, net)
          IN  /\ sent' = [called |-> TRUE, raised |-> r.raised, value |-> r.value,
                          posts |-> r.posts]
              /\ IF r.raised
                 THEN pc' = "exited" /\ exit' = "notify_error"
                 ELSE pc' = "print" /\ exit' = exit
    /\ UNCHANGED <<call, ret, proc, mode>>
    /\ UNCHANGED <<cfg, now, prices, df, alerts, out, fileExists, logLines,
                   dashboard, appended, initAbsent, atStart, runs>>

\* the summary line, then the alert lines; main returns
PrintSummary ==
    /\ pc = "print"
    /\ out' = out \o <<Line("summary", <<>>)>>
              \o (IF alerts # <<>>
                  THEN <<Line("ALERTAS:", <<>>)>>
                       \o [i \in 1..Len(alerts) |-> Line("alert", <<alerts[i]>>)]
                  ELSE <<>>)
    /\ pc' = "exited" /\ exit' = "ok"
    /\ UNCHANGED <<call, ret, proc, mode>>
    /\ UNCHANGED <<cfg, now, prices, df, alerts, sent, fileExists, logLines,
                   dashboard, appended, initAbsent, atStart, runs>>

\* The process is gone: what a run leaves behind is the two files.
ProcessExit ==
    /\ pc = "exited"
    /\ pc' = "idle" /\ cfg' = NoCfg /\ now' = NoTime /\ prices' = <<>>
    /\ df' = NoTable /\ alerts' = <<>> /\ sent' = NotCalled /\ out' = <<>>
    /\ exit' = "none"
    /\ atStart' = [exists |-> fileExists, lines |-> logLines, dashboard |-> dashboard,
                   appended |-> Len(appended)]
    /\ UNCHANGED <<call, ret, proc, mode>>
    /\ UNCHANGED <<fileExists, logLines, dashboard, appended, initAbsent, runs>>

Next ==
    \/ Start
    \/ FetchFail
    \/ FetchOk
    \/ AppendHistory
    \/ LoadHistory
    \/ Render
    \/ CheckAlerts
    \/ Notify
    \/ PrintSummary
    \/ ProcessExit

Spec == Init /\ [][Next]_vars

----------------------------------------------------------------------------
(* Claims about the runs of main *)

IsHeaderRow(row) == row # <<>> /\ row[1] = TimestampCol

HeaderCount == Cardinality({i \in 1..Len(logLines) : IsHeaderRow(logLines[i])})

\* C2 (as stated): from a log that holds no row yet, n >= 1 appends leave
\* exactly one header row, the first line, followed by exactly n data rows.
C2_OneHeaderFromEmptyLog ==
    Len(appended) >= 1 =>
        /\ Len(logLines) = Len(appended) + 1
        /\ IsHeaderRow(logLines[1])
        /\ \A i \in 2..Len(logLines) : ~IsHeaderRow(logLines[i])

\* C2 (amended): from an absent log file, n >= 1 appends leave exactly one
\* header row, the first line, followed by exactly n data rows; from a file
\* that exists and is empty they leave n data rows and no header row.
C2_OneHeaderFromAbsentLog ==
    Len(appended) >= 1 =>
        IF initAbsent
        THEN /\ Len(logLines) = Len(appended) + 1
             /\ IsHeaderRow(logLines[1])
             /\ \A i \in 2..Len(logLines) : ~IsHeaderRow(logLines[i])
        ELSE /\ Len(logLines) = Len(appended)
             /\ HeaderCount = 0

\* the same mapping and timestamp appended twice to an absent log
C2_Witness ==
    /\ initAbsent /\ Len(appended) = 2 /\ appended[1] = appended[2]
    /\ Len(logLines) = 3 /\ HeaderCount = 1

RunUntouched ==
    /\ fileExists = atStart.exists
    /\ logLines = atStart.lines
    /\ dashboard = atStart.dashboard
    /\ Len(appended) = atStart.appended

\* C3: while the fetch has not returned, and after it failed, the history
\* log and the dashboard are as they were when the run started: a change of
\* either is only seen in a run whose fetch completed.
C3_FetchFailureLeavesFiles ==
    /\ (pc = "fetch" \/ (pc = "exited" /\ exit = "fetch_error")) => RunUntouched
    /\ ~RunUntouched => pc \in {"load", "render", "alerts", "notify", "print", "exited"}

\* a run after one that wrote a row: its fetch fails and the files stay
C3_Witness ==
    /\ pc = "exited" /\ exit = "fetch_error"
    /\ logLines # <<>> /\ dashboard.written /\ RunUntouched

AppendedKeys(i) == Keys(appended[i].prices)

\* C4 (as stated): every data row holds one field per header column, each
\* the run's value for the asset that column names, whatever keys the run's
\* mapping has.
C4_RowsFollowHeader ==
    (initAbsent /\ appended # <<>>) =>
        /\ logLines[1] = header_row(appended[1].prices)
        /\ \A i \in 1..Len(appended) :
              LET row == logLines[i + 1]
                  head == logLines[1]
              IN  /\ Len(row) = Len(head)
                  /\ \A j \in 2..Len(head) :
                        /\ HasKey(appended[i].prices, head[j])
                        /\ parse_float(row[j]) = F(Lookup(appended[i].prices, head[j]))

\* C4 (amended): for a log that did not exist before its first write, the
\* header row is the one of the first write and never changes; every data
\* row holds one field per key of its own run's mapping, in that mapping's
\* order; it lines up with the header when the run's key sequence is that of
\* the first write, and does not when the run's key set is another one.
C4_RowsFollowOwnMapping ==
    (initAbsent /\ appended # <<>>) =>
        /\ Len(logLines) = Len(appended) + 1
        /\ logLines[1] = header_row(appended[1].prices)
        /\ \A i \in 1..Len(appended) :
              LET row == logLines[i + 1]
                  ps == appended[i].prices
                  aligned == /\ Len(row) = Len(logLines[1])
                             /\ \A j \in 2..Len(row) :
                                   /\ HasKey(ps, logLines[1][j])
                                   /\ parse_float(row[j]) = F(Lookup(ps, logLines[1][j]))
              IN  /\ Len(row) = 1 + Len(ps)
                  /\ parse_date(row[1]) = appended[i].timestamp
                  /\ \A j \in 1..Len(ps) : parse_float(row[j + 1]) = F(ps[j][2])
                  /\ AppendedKeys(i) = AppendedKeys(1) => aligned
                  /\ aligned => (\A j \in 1..Len(ps) : HasKey(appended[1].prices, ps[j][1]))

\* a later run whose mapping lacks an asset of the header: its row is short
\* and holds ETH's price in BTC's column
C4_Witness ==
    /\ initAbsent /\ Len(appended) = 2
    /\ AppendedKeys(1) = <<BTC, ETH>> /\ AppendedKeys(2) = <<ETH>>
    /\ Len(logLines[3]) = 2 /\ logLines[1][2] = BTC
    /\ logLines[3][2] = float_repr(appended[2].prices[1][2])

BothCredentials(tg) ==
    /\ tg.k = "map"
    /\ OrEmpty(tg.bot_token) # ""
    /\ OrEmpty(tg.chat_id) # ""

ExpectedOut ==
    (IF cfg.alerts_enabled /\ alerts # <<>> THEN <<Line("message", alerts)>> ELSE <<>>)
    \o <<Line("summary", <<>>)>>
    \o (IF alerts # <<>>
        THEN <<Line("ALERTAS:", <<>>)>>
             \o [i \in 1..Len(alerts) |-> Line("alert", <<alerts[i]>>)]
        ELSE <<>>)

NormalOutcome ==
    /\ exit = "ok"
    /\ out = ExpectedOut
    /\ Len(appended) = atStart.appended + 1
    /\ logLines = atStart.lines \o rows_written(atStart.exists, now, prices)
    /\ dashboard = [written |-> TRUE, table |-> df]

\* C7: once notify_telegram has been called, whether the delivery succeeded
\* or failed, nothing was raised, the run goes on to print, and it ends with
\* the normal outcome: exit ok, the summary and alert lines printed, the
\* history row appended, the dashboard written.
C7_NotifyFailureHarmless ==
    sent.called =>
        /\ ~sent.raised
        /\ pc \in {"print", "exited"}
        /\ pc = "exited" => NormalOutcome

\* a run that ended after a POST that failed
C7_Witness ==
    /\ pc = "exited" /\ sent.called /\ sent.posts = 1 /\ ~sent.value
    /\ cfg.alerts_enabled /\ alerts # <<>> /\ NormalOutcome

FixedKeys == \A i \in 1..Len(appended) : AppendedKeys(i) = AppendedKeys(1)

\* the table holds exactly the appended rows, in some order
HoldsAppended(t) ==
    /\ t.cols = AppendedKeys(1)
    /\ Len(t.rows) = Len(appended)
    /\ \E p \in RowOrders(Len(appended)) :
          \A i \in 1..Len(appended) :
             /\ t.rows[i].ts = appended[p[i]].timestamp
             /\ t.rows[i].vals = [j \in 1..Len(appended[p[i]].prices) |->
                                    F(appended[p[i]].prices[j][2])]

Ascending(t) ==
    \A i \in 1..(Len(t.rows) - 1) : TimeKey(t.rows[i].ts) <= TimeKey(t.rows[i + 1].ts)

\* C8: after appends with one key set on an initially absent log, the file
\* loads without error, and every table load_history may return, and the one
\* the run did load, holds exactly one row per append with that append's
\* timestamp and prices, ascending by timestamp.
C8_LoadReturnsAppends ==
    (initAbsent /\ appended # <<>> /\ FixedKeys) =>
        /\ ~read_raises(logLines)
        /\ \A t \in load_history(logLines) : HoldsAppended(t) /\ Ascending(t)
        /\ pc = "render" => (HoldsAppended(df) /\ Ascending(df))

\* two appends out of time order, loaded back in time order
C8_Witness ==
    /\ initAbsent /\ Len(appended) = 2 /\ FixedKeys /\ pc = "render"
    /\ TimeKey(appended[1].timestamp) > TimeKey(appended[2].timestamp)
    /\ appended[1].prices = <<<<BTC, 12>>>>
    /\ df.rows[2].ts = appended[1].timestamp /\ df.rows[2].vals = <<F(12)>>

----------------------------------------------------------------------------
(* The functions, one call at a time *)

AssetConfigs ==
    {[id |-> "id", name |-> nm, hasUpper |-> up > 0, upper |-> up,
      hasLower |-> lo > 0, lower |-> lo] :
        nm \in {BTC, ETH}, up \in {0, 1}, lo \in {0, 1}}

AssetLists == UNION {[1..n -> AssetConfigs] : n \in 0..MaxAssets}

PriceMaps ==
    {b \o e : b \in {<<>>} \cup {<<<<BTC, v>>>> : v \in 0..2},
              e \in {<<>>} \cup {<<<<ETH, v>>>> : v \in 0..2}}

CellValues == {0, 2, 3}

\* sorted history tables: the i-th row is stamped with second i
Tables ==
    UNION {{[cols |-> cols,
             rows |-> [i \in 1..n |-> [ts |-> [s |-> i, us |-> 0],
                                       vals |-> [j \in 1..Len(cols) |-> F(cells[i][j])]]]] :
              cells \in [1..n -> [1..Len(cols) -> CellValues]]} :
           cols \in {<<BTC>>, <<BTC, ETH>>}, n \in 0..MaxRows}

\* chart.ma_windows
WindowLists == {<<w>> : w \in 1..MaxWindow} \cup {<<1, MaxWindow>>}

InitUnit ==
    /\ fileExists = FALSE /\ initAbsent = TRUE
    /\ RunInit
    /\ call = NoCall /\ ret = NoCall /\ proc = NoProc /\ mode = "sequential"

CallCheckAlerts ==
    /\ call = NoCall
    /\ \E ps \in PriceMaps, as \in AssetLists :
          /\ call' = [f |-> "check_alerts", prices |-> ps, assets |-> as]
          /\ ret' = check_alerts(ps, as)
    /\ UNCHANGED runVars /\ UNCHANGED <<proc, mode>>

CallEnrich ==
    /\ call = NoCall
    /\ \E t \in Tables :
          /\ call' = [f |-> "enrich_with_changes", t |-> t]
          /\ ret' = enrich_with_changes(t)
    /\ UNCHANGED runVars /\ UNCHANGED <<proc, mode>>

\* main hands build_dashboard the table enrich_with_changes returned
CallBuildDashboard ==
    /\ call = NoCall
    /\ \E t \in Tables, ws \in WindowLists :
          /\ call' = [f |-> "build_dashboard", t |-> enrich_with_changes(t),
                      ma_windows |-> ws]
          /\ ret' = build_dashboard(enrich_with_changes(t), ws)
    /\ UNCHANGED runVars /\ UNCHANGED <<proc, mode>>

Return ==
    /\ call # NoCall
    /\ call' = NoCall /\ ret' = NoCall
    /\ UNCHANGED runVars /\ UNCHANGED <<proc, mode>>

NextUnit == CallCheckAlerts \/ CallEnrich \/ CallBuildDashboard \/ Return

SpecUnit == InitUnit /\ [][NextUnit]_vars

----------------------------------------------------------------------------
(* Claims about the functions *)

AlertOf(a, kind, p) ==
    [name |-> a.name, kind |-> kind,
     threshold |-> IF kind = "upper" THEN a.upper ELSE a.lower, price |-> p]

InSeq(x, xs) == \E i \in 1..Len(xs) : xs[i] = x

\* C1: the result holds an upper alert for a config exactly when its asset
\* has a price, the config has an upper threshold and price >= upper; a lower
\* alert exactly when it has a price, a lower threshold and price <= lower;
\* and nothing else.
C1_AlertsExact ==
    call.f = "check_alerts" =>
        LET ps == call.prices
            as == call.assets
            Due(a, kind) ==
                /\ HasKey(ps, a.name)
                /\ IF kind = "upper" THEN a.hasUpper /\ Lookup(ps, a.name) >= a.upper
                   ELSE a.hasLower /\ Lookup(ps, a.name) <= a.lower
        IN  /\ \A i \in 1..Len(as), kind \in {"upper", "lower"} :
                  Due(as[i], kind) =>
                      InSeq(AlertOf(as[i], kind, Lookup(ps, as[i].name)), ret)
            /\ \A x \in 1..Len(ret) :
                  \E i \in 1..Len(as) :
                     /\ Due(as[i], ret[x].kind)
                     /\ ret[x] = AlertOf(as[i], ret[x].kind, Lookup(ps, as[i].name))
            /\ Len(ret) = Cardinality({<<i, kind>> \in (1..Len(as)) \X {"upper", "lower"} :
                                          Due(as[i], kind)})

\* a price equal to the upper threshold alerts, a price under it does not
C1_Witness ==
    /\ call.f = "check_alerts"
    /\ call.assets = <<[id |-> "id", name |-> BTC, hasUpper |-> TRUE, upper |-> 1,
                        hasLower |-> FALSE, lower |-> 0],
                       [id |-> "id", name |-> ETH, hasUpper |-> TRUE, upper |-> 1,
                        hasLower |-> FALSE, lower |-> 0]>>
    /\ call.prices = <<<<BTC, 1>>, <<ETH, 0>>>>
    /\ ret = <<[name |-> BTC, kind |-> "upper", threshold |-> 1, price |-> 1]>>

\* the part of the claim that no zero previous value touches
EnrichCommon(t, r) ==
    LET n == Len(t.cols)
    IN  /\ Len(r.rows) = Len(t.rows)
        /\ r.cols = t.cols \o [j \in 1..n |-> t.cols[j] \o PctSuffix]
        /\ \A i \in 1..Len(t.rows) :
              /\ r.rows[i].ts = t.rows[i].ts
              /\ Len(r.rows[i].vals) = 2 * n
              /\ \A j \in 1..n :
                    LET x == r.rows[i].vals[n + j]
                        cur == t.rows[i].vals[j]
                    IN  /\ r.rows[i].vals[j] = cur
                        /\ i = 1 => x = Zero
                        /\ (i > 1 /\ t.rows[i - 1].vals[j].n # 0) =>
                              /\ x.k = "num"
                              /\ x.n * t.rows[i - 1].vals[j].n
                                   = 100 * (cur.n - t.rows[i - 1].vals[j].n) * x.d

MaTraces == {x \in 1..Len(ret.traces) : ret.traces[x].kind = "ma"}

\* the values of the price column a trace is drawn from
SourceOf(trace) ==
    Column(call.t, CHOOSE j \in 1..Len(call.t.cols) : call.t.cols[j] = trace.name)

Defined(y) == y.k # "nan"

\* C9 (as stated): on a one-row table build_dashboard does not raise and no
\* moving-average trace, whatever its window, has a defined point.
C9_SingleRowNoMaPoint ==
    (call.f = "build_dashboard" /\ Len(call.t.rows) = 1) =>
        /\ ~ret.raised
        /\ \A x \in MaTraces : ~Defined(ret.traces[x].y[1])

\* C9 (amended): on a table with at least one row build_dashboard does not
\* raise and draws one moving-average trace per price column and window; the
\* first window-1 points of a trace are undefined and point k >= window-1 is
\* the mean of the window rows ending at k.  On a one-row table a trace has
\* no defined point when its window is 2 or more, and with a window of 1 its
\* single point is the price itself.
C9_MaWindowPoints ==
    (call.f = "build_dashboard" /\ Len(call.t.rows) >= 1) =>
        /\ ~ret.raised
        /\ Cardinality(MaTraces)
             = Len(PriceCols(call.t.cols)) * Len(call.ma_windows)
        /\ \A x \in MaTraces :
              LET tr == ret.traces[x]
                  ys == SourceOf(tr)
              IN  /\ Len(tr.y) = Len(call.t.rows)
                  /\ \A k \in 1..Len(tr.y) :
                        IF k < tr.w
                        THEN ~Defined(tr.y[k])
                        ELSE /\ tr.y[k].k = "num"
                             /\ tr.y[k].n * tr.w
                                  = SumCells(SubSeq(ys, k - tr.w + 1, k)).n * tr.y[k].d
                  /\ Len(call.t.rows) = 1 =>
                        IF tr.w >= 2 THEN ~Defined(tr.y[1]) ELSE tr.y[1] = ys[1]

\* a one-row table drawn with windows 1 and MaxWindow: the first trace has
\* its point, the second has none
C9_Witness ==
    /\ call.f = "build_dashboard" /\ Len(call.t.rows) = 1 /\ ~ret.raised
    /\ call.t.cols = <<BTC, BTC \o PctSuffix>>
    /\ Len(call.ma_windows) = 2
    /\ \E x, z \in MaTraces :
          /\ ret.traces[x].w = 1 /\ Defined(ret.traces[x].y[1])
          /\ ret.traces[z].w >= 2 /\ ~Defined(ret.traces[z].y[1])

----------------------------------------------------------------------------
(* Two invocations of append_history on one log *)

\* An invocation tests for the file (line 35), opens it for appending, which
\* creates it (line 36), and writes its rows, which reach the file in one
\* piece when the buffered file is closed (lines 38-40).  Nothing locks the
\* file.  In mode "sequential" an invocation starts only when the other one
\* is not running; in mode "concurrent" their steps interleave freely.

InitConc ==
    /\ fileExists = FALSE /\ initAbsent = TRUE
    /\ RunInit
    /\ call = NoCall /\ ret = NoCall /\ proc = NoProc
    /\ mode \in {"sequential", "concurrent"}

Other(p) == 3 - p

ConcStart(p) ==
    /\ proc[p].pc = "idle" /\ proc[p].calls < MaxRuns
    /\ mode = "sequential" => proc[Other(p)].pc = "idle"
    /\ \E t \in {[s |-> 0, us |-> 0], [s |-> 1, us |-> 0]} :
          proc' = [proc EXCEPT ![p].pc = "check", ![p].timestamp = t,
                               ![p].prices = <<<<BTC, 12>>>>,
                               ![p].calls = proc[p].calls + 1]
    /\ UNCHANGED <<runVars, call, ret, mode>>

ConcCheck(p) ==
    /\ proc[p].pc = "check"
    /\ proc' = [proc EXCEPT ![p].pc = "open", ![p].file_exists = fileExists]
    /\ UNCHANGED <<runVars, call, ret, mode>>

ConcOpen(p) ==
    /\ proc[p].pc = "open"
    /\ fileExists' = TRUE
    /\ proc' = [proc EXCEPT ![p].pc = "write"]
    /\ UNCHANGED <<pc, cfg, now, prices, df, alerts, sent, out, exit, logLines,
                   dashboard, appended, initAbsent, atStart, runs>>
    /\ UNCHANGED <<call, ret, mode>>

ConcWrite(p) ==
    /\ proc[p].pc = "write"
    /\ logLines' = logLines
                   \o rows_written(proc[p].file_exists, proc[p].timestamp, proc[p].prices)
    /\ proc' = [proc EXCEPT ![p].pc = "idle"]
    /\ UNCHANGED <<pc, cfg, now, prices, df, alerts, sent, out, exit, fileExists,
                   dashboard, appended, initAbsent, atStart, runs>>
    /\ UNCHANGED <<call, ret, mode>>

NextConc ==
    \E p \in {1, 2} : ConcStart(p) \/ ConcCheck(p) \/ ConcOpen(p) \/ ConcWrite(p)

SpecConc == InitConc /\ [][NextConc]_vars

HeaderAfterData ==
    \E i, j \in 1..Len(logLines) :
        i < j /\ ~IsHeaderRow(logLines[i]) /\ IsHeaderRow(logLines[j])

\* C10: with invocations run strictly one at a time the log never holds more
\* than one header row nor a header row after a data row; such a log arises
\* only when the invocations' steps interleave.
C10_SequentialAppendsSafe ==
    /\ mode = "sequential" =>
          /\ HeaderCount <= 1
          /\ ~HeaderAfterData
          /\ logLines # <<>> => IsHeaderRow(logLines[1])
    /\ (HeaderCount > 1 \/ HeaderAfterData) => mode = "concurrent"

\* both invocations found no file before either opened it: two header rows,
\* the second after the first one's data row
C10_Witness ==
    /\ mode = "concurrent"
    /\ HeaderCount = 2 /\ HeaderAfterData
    /\ Len(logLines) = 4 /\ IsHeaderRow(logLines[3])
    /\ proc[1].calls = 1 /\ proc[2].calls = 1

====
